---- MODULE Spec2Model ----
(***************************************************************************)
(* The reload supervisor of rebirth (reloader.go): one Reloader, its       *)
(* child process record r.cmd, the pid file, the SIGHUP channel and the    *)
(* control flows that run over them: Run(), the goroutine spawned for each *)
(* SIGHUP, and calls of Reload() and Close(). Spec is the supervisor with  *)
(* all its flows; SpecStartup, SpecStop and SpecBuild are the startup, the *)
(* stop of the child and the build pipeline, each on its own.              *)
(***************************************************************************)
EXTENDS Integers, Sequences, FiniteSets, TLC

\* Bounds of the model.
MaxFlows   == 2   \* flows besides Run(): signal goroutines, Reload(), Close()
InitCmds   == 2   \* len(r.build.Init)
BeforeCmds == 2   \* len(r.build.Before)
AfterCmds  == 2   \* len(r.build.After)

\* Capacity of the signal channel: make(chan os.Signal, 1).
SigBuf  == 1
\* os.Getpid() of this supervisor, and of the peer started in the container.
SelfPid == 12
PeerPid == 34

VARIABLES
    docker,     \* r.host != nil && r.host.Docker != ""
    marker,     \* /.dockerenv exists
    hasBuild,   \* r.build != nil
    cmd,        \* r.cmd: 0 is nil, otherwise the id of a Command
    alive,      \* ids of the Commands whose process was started and not stopped
    pidFile,    \* .rebirth/server.pid: [exists, data]
    artifact,   \* number of times the compile wrote .rebirth/program
    sigchan,    \* number of signals buffered in sig
    installed,  \* signal.Notify(sig, SIGHUP) was called
    launched,   \* the docker command that starts the peer was issued
    peer,       \* that command: "none", "running", or "failed" once it returned
    run,        \* r.run: "nil" or [Env |-> map from names to values]
    probe,      \* inputs and results of the functions applied on their own
    crashed,    \* a goroutine panicked: the supervisor process is gone
    flows,      \* the control flows, flow 1 is Run()
    trace       \* the steps Run() has performed, in order

vars == <<docker, marker, hasBuild, run, cmd, alive, pidFile, artifact, sigchan,
          installed, launched, peer, crashed, flows, trace, probe>>

NFlows == 1 + MaxFlows
FlowId == 1..NFlows

----------------------------------------------------------------------------
\* The pid file: fmt.Sprintf("%d", pid) and strconv.ParseInt(string(file), 10, 64).

Digits == <<"0", "1", "2", "3", "4", "5", "6", "7", "8", "9">>

DigitChar(d) == Digits[d + 1]

IsDigit(c) == \E d \in 0..9 : Digits[d + 1] = c

DigitVal(c) == CHOOSE d \in 0..9 : Digits[d + 1] = c

RECURSIVE FormatPid(_)
FormatPid(n) ==
    IF n < 10 THEN <<DigitChar(n)>>
    ELSE Append(FormatPid(n \div 10), DigitChar(n % 10))

RECURSIVE ParseDigits(_)
ParseDigits(s) ==
    IF s = <<>> THEN 0
    ELSE 10 * ParseDigits(SubSeq(s, 1, Len(s) - 1)) + DigitVal(s[Len(s)])

NoFile == [exists |-> FALSE, data |-> <<>>]

FileOf(data) == [exists |-> TRUE, data |-> data]

\* readPID: "read" when the file is absent, "parse" when it is no integer.
readPID_AbsentAsParse(file) ==
    IF ~file.exists \/ file.data = <<>>
            \/ \E i \in 1..Len(file.data) : ~IsDigit(file.data[i])
    THEN [err |-> "parse", pid |-> -1]
    ELSE [err |-> "", pid |-> ParseDigits(file.data)]

readPID(file) ==
    IF ~file.exists THEN [err |-> "read", pid |-> -1]
    ELSE IF file.data = <<>> \/ \E i \in 1..Len(file.data) : ~IsDigit(file.data[i])
         THEN [err |-> "parse", pid |-> -1]
         ELSE [err |-> "", pid |-> ParseDigits(file.data)]

\* writePID: the file holds the decimal pid afterwards.
writePID(pid) == FileOf(FormatPid(pid))

----------------------------------------------------------------------------
\* Topology tests.

isUsedDocker == docker

isOnDockerContainer == marker

IsEnabledReload_NoContainerCheck(d, m) == TRUE

IsEnabledReload_DockerOnly(d, m) == ~d

IsEnabledReload(d, m) ==
    IF ~d THEN TRUE
    ELSE IF ~m THEN TRUE
    ELSE FALSE

HostDelegating == docker /\ ~marker
InsideRemote   == docker /\ marker
Local          == ~docker

----------------------------------------------------------------------------
\* The build pipeline. A command list of r.build is given by the results its
\* commands have when they are run: outs[i] is TRUE when command i succeeds.

\* for _, cmd := range list { if err := run(cmd); err != nil { return err } }
\* ran: the commands that were run, in order; ok: nil was returned.
RECURSIVE runPhaseFrom_KeepGoing(_, _)
runPhaseFrom_KeepGoing(outs, i) ==
    IF i > Len(outs) THEN [ran |-> <<>>, ok |-> TRUE]
    ELSE LET r == runPhaseFrom_KeepGoing(outs, i + 1)
         IN  [ran |-> <<i>> \o r.ran, ok |-> outs[i] /\ r.ok]

RECURSIVE runPhaseFrom(_, _)
runPhaseFrom(outs, i) ==
    IF i > Len(outs) THEN [ran |-> <<>>, ok |-> TRUE]
    ELSE IF ~outs[i] THEN [ran |-> <<i>>, ok |-> FALSE]
    ELSE LET r == runPhaseFrom(outs, i + 1)
         IN  [ran |-> <<i>> \o r.ran, ok |-> r.ok]

runPhase(outs) == runPhaseFrom(outs, 1)

\* A list of n commands of which command failAt fails (none when failAt = 0).
runCommands(n, failAt) ==
    LET r == runPhase([i \in 1..n |-> i # failAt])
    IN  [ran |-> Len(r.ran), ok |-> r.ok]

\* xbuild: before commands, compile, after commands; the first failure returns.
\* before, after: the commands of these lists that were run.
xbuildOn(b, cok, a) ==
    LET rb == runPhase(b)
        ra == runPhase(a)
    IN  IF ~rb.ok THEN [ok |-> FALSE, compiled |-> FALSE, steps |-> <<"before">>,
                        before |-> rb.ran, after |-> <<>>]
        ELSE IF ~cok THEN [ok |-> FALSE, compiled |-> FALSE,
                           steps |-> <<"before", "compile">>,
                           before |-> rb.ran, after |-> <<>>]
        ELSE [ok |-> ra.ok, compiled |-> TRUE,
              steps |-> <<"before", "compile", "after">>,
              before |-> rb.ran, after |-> ra.ran]

xbuild(fb, cok, fa) ==
    LET r == xbuildOn([i \in 1..BeforeCmds |-> i # fb], cok,
                      [i \in 1..AfterCmds |-> i # fa])
    IN  [ok |-> r.ok, compiled |-> r.compiled, steps |-> r.steps]

\* What the init commands and xbuild can return, over the place of the failing
\* command.
InitResults == {runCommands(InitCmds, failAt).ok : failAt \in 0..InitCmds}

XbuildResults ==
    {xbuild(fb, cok, fa) : fb \in 0..BeforeCmds, cok \in BOOLEAN, fa \in 0..AfterCmds}

----------------------------------------------------------------------------
\* The run section of the configuration and the environment of a Command.

EnvNames  == {"A", "B"}
EnvValues == {"1", "2"}

\* map[string]string
EnvMaps == UNION {[K -> EnvValues] : K \in SUBSET EnvNames}

NoRun == [nil |-> TRUE, Env |-> <<>>]

RunConfigs == {NoRun} \cup {[nil |-> FALSE, Env |-> e] : e \in EnvMaps}

\* fmt.Sprintf("%s=%s", k, v)
EnvEntry(k, v) == <<k, "=", v>>

\* The overlay reload() gives the new Command: AddEnv is called only when
\* r.run is set, with one entry for every pair of r.run.Env.
NoOverlay == [added |-> FALSE, entries |-> {}]

EnvOverlay_Never(r) == NoOverlay

EnvOverlay(r) ==
    IF r.nil THEN NoOverlay
    ELSE [added |-> TRUE, entries |-> {EnvEntry(k, r.Env[k]) : k \in DOMAIN r.Env}]

\* The inputs and results of the build functions applied on their own.
NoPhase == [ran |-> <<>>, ok |-> TRUE]

NoProbe == [stage |-> "off", init |-> <<>>, before |-> <<>>, cok |-> TRUE,
            after |-> <<>>, ires |-> NoPhase,
            bres |-> xbuildOn(<<>>, TRUE, <<>>)]

----------------------------------------------------------------------------
\* Control flows.

Idle == [kind |-> "none", pc |-> "none", exec |-> 0, nbuild |-> 0, bok |-> FALSE,
         nstart |-> 0, nstop |-> 0, tgt |-> 0, pid |-> -1, nsent |-> 0,
         sig |-> "", to |-> -1, seen |-> 0, up |-> FALSE, env |-> NoOverlay,
         errk |-> "", steps |-> <<>>]

NewFlow(kind, pc) == [Idle EXCEPT !.kind = kind, !.pc = pc]

Free == {f \in FlowId : flows[f].kind = "none"}

\* The slot a new flow takes.
NextFree == CHOOSE f \in Free : \A g \in Free : f <= g

Spawn(kind, pc) ==
    flows' = [flows EXCEPT ![NextFree] =
                 [NewFlow(kind, pc) EXCEPT !.seen = IF kind = "Close" THEN cmd ELSE 0]]

Goto(f, pc) == flows' = [flows EXCEPT ![f].pc = pc]

\* Run(): the branch taken, as the first step of the flow.
RunEntry_AlwaysWritePID(d, m) == "writePID"

RunEntry_InitEverywhere(d, m) == IF d /\ ~m THEN "xbuildRebirth" ELSE "init"

RunEntry(d, m) ==
    IF ~IsEnabledReload(d, m) THEN "writePID"
    ELSE IF d /\ ~m THEN "xbuildRebirth"
    ELSE "init"

\* Run(): what follows a successful xbuild.
RunAfterXbuild_NoLaunch(d, m) == IF d /\ ~m THEN "watch" ELSE "s_check"

RunAfterXbuild(d, m) == IF d /\ ~m THEN "launch" ELSE "s_check"

\* watchReloadSignal: the goroutine of a signal runs r.reload().
SignalHandler_CallsReload == "xbuild"

SignalHandler == "s_check"

\* sendReloadingSignal: remote signal when a docker host is set, else reload().
SendEntry_AlwaysLocal(d) == "s_check"

SendEntry(d) == IF d THEN "readPID" ELSE "s_check"

\* Reload(): a failed xbuild returns, a successful one goes on to sendReloadingSignal.
ReloadAfterXbuild_IgnoreError(ok, d) == SendEntry(d)

ReloadAfterXbuild(ok, d) == IF ok THEN SendEntry(d) ELSE "err"

\* Close(): nothing without docker, stop in the container, remote kill on the host.
CloseEntry_StopAlways(d, m) == IF d /\ ~m THEN "readPID" ELSE "s_check"

CloseEntry(d, m) ==
    IF ~d THEN "done"
    ELSE IF m THEN "s_check"
    ELSE "readPID"

\* The signal of the docker kill command: -HUP in sendReloadingSignal, -QUIT in Close.
KillSignal_AlwaysHUP(kind) == "HUP"

KillSignal(kind) == IF kind = "Close" THEN "QUIT" ELSE "HUP"

\* Whether an error that the function of a flow returns ends the supervisor
\* process: `go r.reload()` drops the error, Reload() and Close() hand it to
\* their caller.
ErrorExit_Fatal(kind) == TRUE

ErrorExit(kind) == FALSE

\* The step of flow f is over: an error it returned may end the process.
Returns(f) == crashed' = (ErrorExit(flows[f].kind) /\ flows'[f].pc = "err")

\* stopCurrentProcess, after a successful Stop: r.cmd = nil
RecordAfterStop_Kept(c) == c

RecordAfterStop(c) == 0

\* stopCurrentProcess returns to Close or to reload.
AfterStop(kind) == IF kind = "Close" THEN "done" ELSE "r_new"

\* reload returns to Run (which goes on to watchReloadSignal) or ends the flow.
AfterReload(kind) == IF kind = "Run" THEN "watch" ELSE "done"

----------------------------------------------------------------------------
\* Without a docker host the code consults neither the marker nor the pid
\* file, and r.run decides no branch but the overlay of a new Command: these
\* configurations are told apart in SpecStartup only.
Init ==
    /\ docker \in BOOLEAN
    /\ marker \in IF docker THEN BOOLEAN ELSE {FALSE}
    /\ hasBuild \in BOOLEAN
    /\ cmd = 0
    /\ alive = {}
    /\ pidFile \in IF docker THEN {NoFile, FileOf(<<"x">>)} ELSE {NoFile}
    /\ artifact = 0
    /\ sigchan = 0
    /\ installed = FALSE
    /\ launched = FALSE
    /\ peer = "none"
    /\ run = [nil |-> FALSE, Env |-> [k \in {"A"} |-> "1"]]
    /\ probe = NoProbe
    /\ crashed = FALSE
    /\ flows = [f \in FlowId |-> IF f = 1 THEN NewFlow("Run", "start") ELSE Idle]
    /\ trace = <<>>

----------------------------------------------------------------------------
\* Run().

RunStart ==
    /\ ~crashed
    /\ flows[1].pc = "start"
    /\ Goto(1, RunEntry(isUsedDocker, isOnDockerContainer))
    /\ UNCHANGED <<docker, marker, hasBuild, run, cmd, alive, pidFile,
                   artifact, sigchan, installed, launched, peer, crashed,
                   trace, probe>>

\* r.writePID(), then r.reload().
RunWritePID ==
    /\ ~crashed
    /\ flows[1].pc = "writePID"
    /\ \E ok \in BOOLEAN :
        IF ok
        THEN /\ pidFile' = writePID(SelfPid)
             /\ trace' = Append(trace, "writePID")
             /\ Goto(1, "s_check")
        ELSE /\ Goto(1, "err")
             /\ UNCHANGED <<pidFile, trace>>
    /\ UNCHANGED <<docker, marker, hasBuild, run, cmd, alive, artifact,
                   sigchan, installed, launched, peer, crashed, probe>>

\* r.xbuildRebirth(): cross-compile of the supervisor itself.
RunXbuildRebirth ==
    /\ ~crashed
    /\ flows[1].pc = "xbuildRebirth"
    /\ \E ok \in BOOLEAN :
        IF ok
        THEN /\ trace' = Append(trace, "xbuildRebirth")
             /\ Goto(1, "init")
        ELSE /\ Goto(1, "err")
             /\ UNCHANGED trace
    /\ UNCHANGED <<docker, marker, hasBuild, run, cmd, alive, pidFile,
                   artifact, sigchan, installed, launched, peer, crashed,
                   probe>>

\* r.runBuildInitCommands(): r.build.Init is read through r.build.
RunInit ==
    /\ ~crashed
    /\ flows[1].pc = "init"
    /\ IF ~hasBuild
       THEN /\ crashed' = TRUE
            /\ UNCHANGED <<flows, trace>>
       ELSE /\ \E ok \in InitResults :
                 /\ trace' = Append(trace, "init")
                 /\ Goto(1, IF ok THEN "xbuild" ELSE "err")
            /\ UNCHANGED crashed
    /\ UNCHANGED <<docker, marker, hasBuild, run, cmd, alive, pidFile,
                   artifact, sigchan, installed, launched, peer, probe>>

\* r.xbuild(buildPath, "."), called by Run() and by Reload().
Xbuild(f) ==
    /\ ~crashed
    /\ flows[f].pc = "xbuild"
    /\ IF ~hasBuild
       THEN /\ crashed' = TRUE
            /\ UNCHANGED <<flows, trace, artifact>>
       ELSE /\ \E r \in XbuildResults :
                 LET next == IF flows[f].kind = "Run"
                             THEN IF r.ok
                                  THEN RunAfterXbuild(isUsedDocker, isOnDockerContainer)
                                  ELSE "err"
                             ELSE ReloadAfterXbuild(r.ok, isUsedDocker)
                 IN  /\ flows' = [flows EXCEPT ![f].pc = next,
                                               ![f].nbuild = @ + 1,
                                               ![f].bok = r.ok,
                                               ![f].steps = r.steps]
                     /\ artifact' = IF r.compiled THEN artifact + 1 ELSE artifact
                     /\ trace' = IF f = 1 THEN trace \o r.steps ELSE trace
            /\ Returns(f)
    /\ UNCHANGED <<docker, marker, hasBuild, run, cmd, alive, pidFile,
                   sigchan, installed, launched, peer, probe>>

\* go NewDockerCommand(r.host.Docker, dockerRebirthPath).Run()
RunLaunch ==
    /\ ~crashed
    /\ flows[1].pc = "launch"
    /\ launched' = TRUE
    /\ peer' = "running"
    /\ trace' = Append(trace, "launch")
    /\ Goto(1, "watch")
    /\ UNCHANGED <<docker, marker, hasBuild, run, cmd, alive, pidFile,
                   artifact, sigchan, installed, crashed, probe>>

\* r.watchReloadSignal(), then the sleep loop.
RunWatch ==
    /\ ~crashed
    /\ flows[1].pc = "watch"
    /\ installed' = TRUE
    /\ trace' = Append(trace, "watch")
    /\ Goto(1, "loop")
    /\ UNCHANGED <<docker, marker, hasBuild, run, cmd, alive, pidFile,
                   artifact, sigchan, launched, peer, crashed, probe>>

----------------------------------------------------------------------------
\* The Command type (the process handle): Stop requests termination of the
\* process of the command, RunAsync starts it without waiting for it; up tells
\* whether the operating system could spawn the process.

CommandStop(procs, c) == procs \ {c}

CommandRunAsync(procs, c, up) == IF up THEN procs \cup {c} ELSE procs

----------------------------------------------------------------------------
\* stopCurrentProcess(), one step per access to r.cmd.

\* if r.cmd == nil { return nil }
StopCheck(f) ==
    /\ ~crashed
    /\ flows[f].pc = "s_check"
    /\ Goto(f, IF cmd = 0 THEN AfterStop(flows[f].kind) ELSE "s_stop")
    /\ UNCHANGED <<docker, marker, hasBuild, run, cmd, alive, pidFile,
                   artifact, sigchan, installed, launched, peer, crashed,
                   trace, probe>>

\* r.cmd.Stop(): r.cmd is read again; a nil r.cmd is dereferenced in Stop.
StopCall(f) ==
    /\ ~crashed
    /\ flows[f].pc = "s_stop"
    /\ IF cmd = 0
       THEN /\ crashed' = TRUE
            /\ UNCHANGED <<flows, alive>>
       ELSE /\ \E ok \in BOOLEAN :
                 /\ flows' = [flows EXCEPT ![f].pc = IF ok THEN "s_clear" ELSE "err",
                                           ![f].nstop = @ + 1,
                                           ![f].tgt = cmd]
                 /\ alive' = IF ok THEN CommandStop(alive, cmd) ELSE alive
            /\ Returns(f)
    /\ UNCHANGED <<docker, marker, hasBuild, run, cmd, pidFile, artifact,
                   sigchan, installed, launched, peer, trace, probe>>

\* r.cmd = nil
StopClear(f) ==
    /\ ~crashed
    /\ flows[f].pc = "s_clear"
    /\ cmd' = RecordAfterStop(cmd)
    /\ Goto(f, AfterStop(flows[f].kind))
    /\ UNCHANGED <<docker, marker, hasBuild, run, alive, pidFile, artifact,
                   sigchan, installed, launched, peer, crashed, trace, probe>>

\* reload(), after stopCurrentProcess: execCmd := NewCommand(buildPath); r.cmd = execCmd
ReloadNew(f) ==
    /\ ~crashed
    /\ flows[f].pc = "r_new"
    /\ cmd' = f
    /\ flows' = [flows EXCEPT ![f].pc = "r_run", ![f].exec = f,
                              ![f].env = EnvOverlay(run)]
    /\ UNCHANGED <<docker, marker, hasBuild, run, alive, pidFile, artifact,
                   sigchan, installed, launched, peer, crashed, trace, probe>>

\* execCmd.RunAsync(); return nil: RunAsync hands no result to reload().
ReloadRun(f) ==
    /\ ~crashed
    /\ flows[f].pc = "r_run"
    /\ \E up \in BOOLEAN :
        /\ alive' = CommandRunAsync(alive, flows[f].exec, up)
        /\ flows' = [flows EXCEPT ![f].pc = AfterReload(flows[f].kind),
                                  ![f].nstart = @ + 1,
                                  ![f].up = up]
    /\ trace' = IF f = 1 THEN Append(trace, "start") ELSE trace
    /\ UNCHANGED <<docker, marker, hasBuild, run, cmd, pidFile, artifact,
                   sigchan, installed, launched, peer, crashed, probe>>

----------------------------------------------------------------------------
\* Reload(), Close() and the remote commands.

\* A call of Reload(): the flow starts at r.xbuild(buildPath, ".").
CallReload ==
    /\ ~crashed
    /\ Free # {}
    /\ Spawn("Reload", "xbuild")
    /\ UNCHANGED <<docker, marker, hasBuild, run, cmd, alive, pidFile,
                   artifact, sigchan, installed, launched, peer, crashed,
                   trace, probe>>

\* A call of Close(): the flow starts in the branch Close() takes.
CallClose ==
    /\ ~crashed
    /\ Free # {}
    /\ Spawn("Close", CloseEntry(isUsedDocker, isOnDockerContainer))
    /\ UNCHANGED <<docker, marker, hasBuild, run, cmd, alive, pidFile,
                   artifact, sigchan, installed, launched, peer, crashed,
                   trace, probe>>

\* pid, err := r.readPID()
ReadPID(f) ==
    /\ ~crashed
    /\ flows[f].pc = "readPID"
    /\ LET r == readPID(pidFile)
       IN  flows' = [flows EXCEPT ![f].pc = IF r.err = "" THEN "kill" ELSE "err",
                                  ![f].pid = r.pid,
                                  ![f].errk = r.err]
    /\ Returns(f)
    /\ UNCHANGED <<docker, marker, hasBuild, run, cmd, alive, pidFile,
                   artifact, sigchan, installed, launched, peer, trace,
                   probe>>

\* NewDockerCommand(containerName, "kill", "-HUP" | "-QUIT", fmt.Sprint(pid)).Run()
Kill(f) ==
    /\ ~crashed
    /\ flows[f].pc = "kill"
    /\ \E ok \in BOOLEAN :
        flows' = [flows EXCEPT ![f].pc = IF ok THEN "done" ELSE "err",
                               ![f].nsent = @ + 1,
                               ![f].sig = KillSignal(flows[f].kind),
                               ![f].to = flows[f].pid]
    /\ Returns(f)
    /\ UNCHANGED <<docker, marker, hasBuild, run, cmd, alive, pidFile,
                   artifact, sigchan, installed, launched, peer, trace,
                   probe>>

----------------------------------------------------------------------------
\* Signals and the peer.

\* A SIGHUP arrives: Notify puts it in sig unless the buffer is full.
SigHUP ==
    /\ ~crashed
    /\ installed
    /\ sigchan < SigBuf
    /\ sigchan' = sigchan + 1
    /\ UNCHANGED <<docker, marker, hasBuild, run, cmd, alive, pidFile,
                   artifact, installed, launched, peer, crashed, flows, trace,
                   probe>>

\* The listener goroutine: <-sig; go r.reload()
Listener ==
    /\ ~crashed
    /\ installed
    /\ sigchan > 0
    /\ Free # {}
    /\ sigchan' = sigchan - 1
    /\ Spawn("sig", SignalHandler)
    /\ UNCHANGED <<docker, marker, hasBuild, run, cmd, alive, pidFile,
                   artifact, installed, launched, peer, crashed, trace,
                   probe>>

\* The docker command of the launch returns: the peer could not be started or
\* has exited. The goroutine that ran the command drops its result.
PeerExit ==
    /\ peer = "running"
    /\ peer' = "failed"
    /\ UNCHANGED <<docker, marker, hasBuild, run, cmd, alive, pidFile, artifact,
                   sigchan, installed, launched, crashed, flows, trace, probe>>

\* The peer supervisor, started in the container, runs its own writePID.
PeerWritePID ==
    /\ launched
    /\ peer = "running"
    /\ pidFile # writePID(PeerPid)
    /\ pidFile' = writePID(PeerPid)
    /\ UNCHANGED <<docker, marker, hasBuild, run, cmd, alive, artifact,
                   sigchan, installed, launched, peer, crashed, flows, trace,
                   probe>>

----------------------------------------------------------------------------
Next ==
    \/ RunStart
    \/ RunWritePID
    \/ RunXbuildRebirth
    \/ RunInit
    \/ RunLaunch
    \/ RunWatch
    \/ CallReload
    \/ CallClose
    \/ SigHUP
    \/ Listener
    \/ PeerExit
    \/ PeerWritePID
    \/ \E f \in FlowId :
        \/ Xbuild(f)
        \/ StopCheck(f)
        \/ StopCall(f)
        \/ StopClear(f)
        \/ ReloadNew(f)
        \/ ReloadRun(f)
        \/ ReadPID(f)
        \/ Kill(f)

Spec == Init /\ [][Next]_vars

----------------------------------------------------------------------------
\* The startup on its own: Run() up to its sleep loop, with no signal and no
\* call of Reload() or Close(), for every configuration.

InitStartup ==
    /\ docker \in BOOLEAN
    /\ marker \in BOOLEAN
    /\ hasBuild \in BOOLEAN
    /\ run \in RunConfigs
    /\ pidFile \in {NoFile, FileOf(<<"x">>)}
    /\ cmd = 0 /\ alive = {} /\ artifact = 0 /\ sigchan = 0
    /\ installed = FALSE /\ launched = FALSE /\ peer = "none" /\ crashed = FALSE
    /\ flows = [f \in FlowId |-> IF f = 1 THEN NewFlow("Run", "start") ELSE Idle]
    /\ trace = <<>>
    /\ probe = NoProbe

NextStartup ==
    \/ RunStart
    \/ RunWritePID
    \/ RunXbuildRebirth
    \/ RunInit
    \/ Xbuild(1)
    \/ RunLaunch
    \/ RunWatch
    \/ StopCheck(1)
    \/ ReloadNew(1)
    \/ ReloadRun(1)

SpecStartup == InitStartup /\ [][NextStartup]_vars

----------------------------------------------------------------------------
\* stopCurrentProcess on its own: calls of Close() in the container, each made
\* after the one before it has returned, from every state of r.cmd and of the
\* processes that earlier flows can have left behind.

InitStop ==
    /\ docker = TRUE /\ marker = TRUE /\ hasBuild = TRUE
    /\ run = NoRun
    /\ cmd \in {0} \cup FlowId
    /\ alive \in SUBSET FlowId
    /\ pidFile = writePID(SelfPid)
    /\ artifact = 0 /\ sigchan = 0
    /\ installed = TRUE /\ launched = FALSE /\ peer = "none" /\ crashed = FALSE
    /\ flows = [f \in FlowId |-> IF f = 1 THEN NewFlow("Run", "loop") ELSE Idle]
    /\ trace = <<"writePID", "start", "watch">>
    /\ probe = NoProbe

\* Close() is called when no earlier call is still running.
CallCloseInTurn ==
    /\ \A f \in FlowId \ {1} : flows[f].pc \in {"none", "done", "err"}
    /\ CallClose

NextStop ==
    \/ CallCloseInTurn
    \/ \E f \in FlowId :
        \/ StopCheck(f)
        \/ StopCall(f)
        \/ StopClear(f)

SpecStop == InitStop /\ [][NextStop]_vars

----------------------------------------------------------------------------
\* The build pipeline on its own: runBuildInitCommands, then xbuild, as Run()
\* calls them, for every length of the command lists up to the bounds and
\* every result of every command.

OutsUpTo(n) == UNION {[1..k -> BOOLEAN] : k \in 0..n}

InitBuild ==
    /\ docker = FALSE /\ marker = FALSE /\ hasBuild = TRUE
    /\ run = NoRun
    /\ cmd = 0 /\ alive = {} /\ pidFile = NoFile /\ artifact = 0 /\ sigchan = 0
    /\ installed = FALSE /\ launched = FALSE /\ peer = "none" /\ crashed = FALSE
    /\ flows = [f \in FlowId |-> Idle]
    /\ trace = <<>>
    /\ \E i \in OutsUpTo(InitCmds), b \in OutsUpTo(BeforeCmds), cok \in BOOLEAN,
          a \in OutsUpTo(AfterCmds) :
            probe = [NoProbe EXCEPT !.stage = "new", !.init = i, !.before = b,
                                    !.cok = cok, !.after = a]

\* r.runBuildInitCommands()
ApplyInit ==
    /\ probe.stage = "new"
    /\ probe' = [probe EXCEPT !.stage = "init", !.ires = runPhase(probe.init)]
    /\ UNCHANGED <<docker, marker, hasBuild, run, cmd, alive, pidFile, artifact,
                   sigchan, installed, launched, peer, crashed, flows, trace>>

\* r.xbuild(buildPath, "."), reached when the init commands succeeded.
ApplyXbuild ==
    /\ probe.stage = "init"
    /\ probe.ires.ok
    /\ probe' = [probe EXCEPT !.stage = "built",
                              !.bres = xbuildOn(probe.before, probe.cok, probe.after)]
    /\ UNCHANGED <<docker, marker, hasBuild, run, cmd, alive, pidFile, artifact,
                   sigchan, installed, launched, peer, crashed, flows, trace>>

NextBuild == ApplyInit \/ ApplyXbuild

SpecBuild == InitBuild /\ [][NextBuild]_vars

----------------------------------------------------------------------------
\* Vocabulary of the properties.

Flows(kind) == {f \in FlowId : flows[f].kind = kind}

\* The flows that stand between their read of r.cmd and their write of it.
InRecordAccess == {f \in FlowId : flows[f].pc \in {"s_stop", "s_clear", "r_new"}}

StartupDone == flows[1].pc = "loop"

\* Only Run() and the goroutines of reload signals have run so far.
OnlySignalFlows == Flows("Reload") = {} /\ Flows("Close") = {}

LocalStartup == <<"init", "before", "compile", "after", "start", "watch">>

InsideStartup == <<"writePID", "start", "watch">>

----------------------------------------------------------------------------
\* C1: at most one child process that was started and not yet stopped exists,
\* under every interleaving of the flows that reload signals spawn.
C1_AtMostOneLiveChild ==
    (~HostDelegating /\ OnlySignalFlows) => Cardinality(alive) <= 1

\* C2: once two restart cycles triggered one right after the other have both
\* finished, exactly one child is alive and it is r.cmd.
C2_OneTrackedSurvivor ==
    ( /\ ~HostDelegating
      /\ ~crashed
      /\ OnlySignalFlows
      /\ Cardinality(Flows("sig")) >= 2
      /\ \A f \in Flows("sig") : flows[f].pc = "done" )
    => (cmd # 0 /\ alive = {cmd})

\* C3: no two flows are at once between their read of r.cmd in
\* stopCurrentProcess and their write of r.cmd.
C3_ExclusiveRecordAccess ==
    (~HostDelegating /\ OnlySignalFlows) => Cardinality(InRecordAccess) <= 1

\* C4: in HostDelegating topology no local child is ever started and r.cmd
\* stays nil, whatever signals and calls arrive.
C4_HostNeverStartsChild ==
    HostDelegating =>
        /\ cmd = 0
        /\ alive = {}
        /\ \A f \in FlowId : flows[f].nstart = 0 /\ flows[f].exec = 0

----------------------------------------------------------------------------
\* C5 as stated: in Local topology every reload signal causes exactly one
\* rebuild followed by one restart.
C5_SignalRebuildsOnce ==
    Local => \A f \in Flows("sig") : flows[f].pc = "done" => flows[f].nbuild = 1

\* C5 as amended: in Local topology the flow of a reload signal never builds
\* and, when it finishes, has started exactly one child; a Reload() call builds
\* exactly once and stops or starts a child only after that build succeeded.
C5_SignalRestartsReloadBuildsFirst ==
    Local =>
        /\ \A f \in Flows("sig") :
            /\ flows[f].nbuild = 0
            /\ flows[f].nstart <= 1
            /\ flows[f].pc = "done" => (flows[f].nstart = 1 /\ flows[f].exec = f)
        /\ \A f \in Flows("Reload") :
            /\ flows[f].nbuild = IF flows[f].pc = "xbuild" THEN 0 ELSE 1
            /\ flows[f].nstart <= 1
            /\ (flows[f].nstop > 0 \/ flows[f].nstart > 0 \/ flows[f].exec # 0
                    \/ flows[f].pc \in {"s_check", "s_stop", "s_clear", "r_new", "r_run"})
                => flows[f].bok
            /\ flows[f].pc = "done" => flows[f].nstart = 1

C5_Witness ==
    /\ Local
    /\ \E f \in Flows("sig") : flows[f].pc = "done" /\ f \in alive
    /\ \E f \in Flows("Reload") : flows[f].pc = "done" /\ flows[f].bok

\* C6: a Reload() whose build failed has returned without stopping or starting
\* a child, without writing r.cmd and without sending a signal.
C6_FailedBuildTouchesNothing ==
    \A f \in Flows("Reload") :
        (flows[f].nbuild = 1 /\ ~flows[f].bok) =>
            /\ flows[f].pc = "err"
            /\ flows[f].nstop = 0
            /\ flows[f].nstart = 0
            /\ flows[f].exec = 0
            /\ flows[f].nsent = 0

C6_Witness ==
    /\ cmd = 1
    /\ alive = {1}
    /\ \E f \in Flows("Reload") : flows[f].nbuild = 1 /\ ~flows[f].bok

----------------------------------------------------------------------------
\* C7 as stated: in Local topology a finished Close() that found a tracked
\* child has terminated it and cleared r.cmd.
C7_LocalCloseStopsChild ==
    Local => \A f \in Flows("Close") :
        (flows[f].pc = "done" /\ flows[f].seen # 0) =>
            (flows[f].seen \notin alive /\ cmd # flows[f].seen)

\* C7 as amended: Close() stops the child only in InsideRemote topology: there
\* it requests termination of r.cmd, clears r.cmd after a successful stop, and
\* does nothing when r.cmd is nil; in Local topology Close() returns at once
\* and changes neither the child nor r.cmd.
C7_CloseStep(f) ==
    /\ Local => (flows'[f].pc = "done" /\ cmd' = cmd /\ alive' = alive)
    /\ (InsideRemote /\ flows[f].pc = "s_check" /\ cmd = 0) =>
            (flows'[f].pc = "done" /\ cmd' = cmd /\ alive' = alive)
    /\ (InsideRemote /\ flows[f].pc = "s_stop" /\ flows'[f].pc = "s_clear") =>
            (flows'[f].tgt = cmd /\ cmd # 0 /\ alive' = alive \ {cmd})
    /\ (InsideRemote /\ flows[f].pc = "s_clear") =>
            (cmd' = 0 /\ flows'[f].pc = "done")

C7_CloseStopsOnlyInContainer ==
    [][\A f \in FlowId :
          (flows'[f].kind = "Close" /\ flows'[f] # flows[f]) => C7_CloseStep(f)]_vars

C7_Witness ==
    /\ InsideRemote
    /\ cmd = 0
    /\ alive = {}
    /\ \E f, g \in Flows("Close") :
        /\ flows[f].pc = "done" /\ flows[f].nstop = 1 /\ flows[f].tgt = 1
        /\ flows[g].pc = "done" /\ flows[g].nstop = 0 /\ flows[g].seen = 0

\* C8: in HostDelegating topology a Close() sends at most one remote command,
\* exactly one when it succeeds: kill -QUIT addressed at the pid it read from
\* the pid file; it stops and starts no local process and never writes r.cmd.
C8_HostCloseOneRemoteQuit ==
    HostDelegating => \A f \in Flows("Close") :
        /\ flows[f].pc \in {"readPID", "kill", "done", "err"}
        /\ flows[f].nstop = 0 /\ flows[f].nstart = 0 /\ flows[f].exec = 0
        /\ flows[f].nsent <= 1
        /\ flows[f].pc = "done" => flows[f].nsent = 1
        /\ flows[f].nsent = 1 =>
            /\ flows[f].sig = "QUIT"
            /\ flows[f].to = flows[f].pid
            /\ flows[f].pid = PeerPid

C8_Witness ==
    /\ HostDelegating
    /\ \E f \in Flows("Close") :
        flows[f].pc = "done" /\ flows[f].nsent = 1 /\ flows[f].to = PeerPid

----------------------------------------------------------------------------
\* C9 as stated: a successful Local startup writes the pid file, then builds,
\* then starts the child, then waits; the pid file holds the supervisor's pid.
C9_LocalStartupWritesPid ==
    (Local /\ StartupDone) =>
        /\ trace = <<"writePID">> \o LocalStartup
        /\ pidFile = writePID(SelfPid)

\* C9 as amended: a successful Local startup runs the init commands, the
\* before commands, the compile and the after commands, starts the child and
\* installs the listener, in this order, and never writes the pid file.
C9_LocalStartupOrder ==
    Local =>
        /\ StartupDone => trace = LocalStartup
        /\ pidFile # writePID(SelfPid)
        /\ \A i \in 1..Len(trace) : trace[i] # "writePID"

C9_Witness == Local /\ StartupDone /\ cmd = 1 /\ alive = {1} /\ artifact = 1

\* C10 as stated: a successful InsideRemote startup performs the steps of a
\* Local startup.
C10_InsideRemoteAsLocal ==
    (InsideRemote /\ StartupDone) => trace = LocalStartup

\* C10 as amended: a successful InsideRemote startup writes the pid file and
\* starts the child from the existing artifact with no init commands and no
\* build; it shares with the Local startup only the child start followed by
\* the installation of the listener.
C10_InsideRemoteStartup ==
    (InsideRemote /\ StartupDone) =>
        /\ trace = InsideStartup
        /\ flows[1].nbuild = 0
        /\ flows[1].nstart = 1
        /\ SubSeq(trace, Len(trace) - 1, Len(trace))
             = SubSeq(LocalStartup, Len(LocalStartup) - 1, Len(LocalStartup))

C10_Witness ==
    /\ InsideRemote /\ StartupDone
    /\ cmd = 1 /\ alive = {1}
    /\ pidFile = writePID(SelfPid)

----------------------------------------------------------------------------
\* C11 as stated: in HostDelegating topology a Reload() does not build; it
\* reads the pid of the peer and sends exactly one kill -HUP to that pid.
C11_HostReloadDoesNotBuild ==
    HostDelegating => \A f \in Flows("Reload") :
        /\ flows[f].nbuild = 0
        /\ flows[f].pc = "done" =>
            (flows[f].nsent = 1 /\ flows[f].sig = "HUP" /\ flows[f].to = flows[f].pid)

\* C11 as amended: in HostDelegating topology a Reload() builds the artifact
\* exactly once, and only after that build succeeded reads the pid file and
\* sends at most one remote command, exactly one when it succeeds: kill -HUP
\* addressed at the pid it read; it stops and starts no local process.
C11_HostReloadBuildsThenSignals ==
    HostDelegating => \A f \in Flows("Reload") :
        /\ flows[f].pc \in {"xbuild", "readPID", "kill", "done", "err"}
        /\ flows[f].nbuild = IF flows[f].pc = "xbuild" THEN 0 ELSE 1
        /\ flows[f].pc \in {"readPID", "kill", "done"} => flows[f].bok
        /\ flows[f].nstop = 0 /\ flows[f].nstart = 0 /\ flows[f].exec = 0
        /\ flows[f].nsent <= 1
        /\ flows[f].pc = "done" => flows[f].nsent = 1
        /\ flows[f].nsent = 1 =>
            /\ flows[f].bok
            /\ flows[f].sig = "HUP"
            /\ flows[f].to = flows[f].pid
            /\ flows[f].pid = PeerPid

C11_Witness ==
    /\ HostDelegating
    /\ \E f \in Flows("Reload") :
        /\ flows[f].pc = "done" /\ flows[f].nbuild = 1 /\ flows[f].bok
        /\ flows[f].nsent = 1 /\ flows[f].sig = "HUP" /\ flows[f].to = PeerPid

----------------------------------------------------------------------------
\* C12: when a step of the startup sequence of Run() fails (the write of the
\* pid file, an init command, the cross-compile of the supervisor, the build,
\* or the spawn of the child), Run() has returned an error, has performed no
\* later step and has not installed the signal listener.
C12_StartupFailureReturns ==
    /\ flows[1].pc = "err" =>
        (~installed /\ \A i \in 1..Len(trace) : trace[i] # "watch")
    /\ (flows[1].nstart = 1 /\ ~flows[1].up) =>
        (flows[1].pc = "err" /\ ~installed)

----------------------------------------------------------------------------
\* C13: a failure in a rebuild cycle (failed build, failed stop of the child,
\* pid file unreadable, failed remote signal) ends that cycle with an error and
\* nothing else: the supervisor does not terminate, Run() and the other flows
\* are untouched, the listener stays installed, and afterwards a reload signal
\* is still taken and still starts a new flow.
C13_CycleFails(f) ==
    /\ flows[f].kind \in {"sig", "Reload"}
    /\ flows[f].pc # "err"
    /\ flows'[f].pc = "err"

C13_TriggersServed ==
    (installed /\ ~crashed /\ \E f \in FlowId :
            flows[f].kind \in {"sig", "Reload"} /\ flows[f].pc = "err") =>
        /\ sigchan < SigBuf => ENABLED SigHUP
        /\ (sigchan > 0 /\ Free # {}) => ENABLED Listener
        /\ Free # {} => ENABLED CallReload

----------------------------------------------------------------------------
\* What a fail-fast run of a command list is: the commands up to the first
\* failing one were run, in order, and no other; it succeeds when none fails.
C14_FailFast(outs, ran, ok) ==
    /\ \A i \in 1..Len(outs) :
        (~outs[i] /\ \A j \in 1..(i - 1) : outs[j]) =>
            (ran = [k \in 1..i |-> k] /\ ~ok)
    /\ (\A i \in 1..Len(outs) : outs[i]) =>
            (ran = [k \in 1..Len(outs) |-> k] /\ ok)

C14_Fails(outs) == \E i \in 1..Len(outs) : ~outs[i]

\* C14: in the init, before and after phases a failing command is the last one
\* run and the phase fails; in xbuild a failed before phase leaves the compile
\* and the after commands unrun, and a failed compile leaves the after
\* commands unrun.
C14_BuildPhasesFailFast ==
    /\ probe.stage \in {"init", "built"} =>
        C14_FailFast(probe.init, probe.ires.ran, probe.ires.ok)
    /\ probe.stage = "built" =>
        LET r == probe.bres
            compileRan == \E i \in 1..Len(r.steps) : r.steps[i] = "compile"
        IN  /\ C14_FailFast(probe.before, r.before, ~C14_Fails(probe.before))
            /\ C14_Fails(probe.before) =>
                (~r.ok /\ ~compileRan /\ ~r.compiled /\ r.after = <<>>)
            /\ (~C14_Fails(probe.before) /\ ~probe.cok) =>
                (~r.ok /\ compileRan /\ ~r.compiled /\ r.after = <<>>)
            /\ (~C14_Fails(probe.before) /\ probe.cok) =>
                (r.compiled /\ C14_FailFast(probe.after, r.after, r.ok))

C14_Witness ==
    /\ probe.stage = "built"
    /\ probe.before = <<TRUE, TRUE>>
    /\ probe.cok
    /\ probe.after = <<FALSE, TRUE>>
    /\ probe.bres.before = <<1, 2>>
    /\ probe.bres.after = <<1>>
    /\ ~probe.bres.ok

----------------------------------------------------------------------------
C15_Count(seq, x) == Cardinality({i \in 1..Len(seq) : seq[i] = x})

C15_BuildSteps == {<<"before">>, <<"before", "compile">>,
                   <<"before", "compile", "after">>}

\* C15: over startup and any number of cycles the init commands are run at
\* most once, by Run() only, before the listener is installed, and never in
\* InsideRemote topology; every xbuild runs the before commands once, the
\* compile at most once after them, and the after commands at most once after
\* a compile that succeeded, so that there is one after phase for each compile
\* that wrote the artifact.
C15_InitOncePhasesPerCompile ==
    /\ C15_Count(trace, "init") <= 1
    /\ InsideRemote => C15_Count(trace, "init") = 0
    /\ \A i, j \in 1..Len(trace) :
        (trace[i] = "init" /\ trace[j] = "watch") => i < j
    /\ \A f \in FlowId \ {1} : flows[f].pc \notin {"init", "xbuildRebirth"}
    /\ \A f \in FlowId :
        /\ flows[f].nbuild <= 1
        /\ flows[f].nbuild = 0 => flows[f].steps = <<>>
        /\ flows[f].nbuild = 1 => flows[f].steps \in C15_BuildSteps
        /\ flows[f].bok => Len(flows[f].steps) = 3
    /\ artifact = Cardinality({f \in FlowId : Len(flows[f].steps) = 3})
    /\ flows[1].steps = SelectSeq(trace, LAMBDA x : x \in {"before", "compile", "after"})

C15_Witness ==
    /\ ~InsideRemote
    /\ StartupDone
    /\ C15_Count(trace, "init") = 1
    /\ artifact = 3
    /\ \E f \in Flows("Reload") : flows[f].pc = "done" /\ flows[f].bok
    /\ \E f \in Flows("Reload") : ~flows[f].bok /\ Len(flows[f].steps) = 3

----------------------------------------------------------------------------
\* The branches of Run(): the positions and the steps that belong to each.
C16_BranchPcs ==
    IF ~docker THEN {"init", "xbuild", "s_check", "r_new", "r_run", "watch"}
    ELSE IF marker THEN {"writePID", "s_check", "r_new", "r_run", "watch"}
    ELSE {"xbuildRebirth", "init", "xbuild", "launch", "watch"}

C16_BranchSteps ==
    IF ~docker THEN {"init", "before", "compile", "after", "start", "watch"}
    ELSE IF marker THEN {"writePID", "start", "watch"}
    ELSE {"xbuildRebirth", "init", "before", "compile", "after", "launch", "watch"}

C16_FirstStep ==
    IF ~docker THEN "init"
    ELSE IF marker THEN "writePID"
    ELSE "xbuildRebirth"

\* C16: the branch Run() takes is decided by the docker host and the container
\* marker alone: the Local branch without a docker host, whatever the marker;
\* the InsideRemote branch with host and marker; the HostDelegating branch with
\* host and no marker; and Run() stays in the one branch it entered.
C16_BranchByDockerAndMarker ==
    /\ [][(flows[1].pc = "start" /\ flows'[1].pc # "start") =>
            flows'[1].pc = C16_FirstStep]_vars
    /\ [](/\ flows[1].pc \in {"start", "err", "loop"} \cup C16_BranchPcs
          /\ \A i \in 1..Len(trace) : trace[i] \in C16_BranchSteps)

C16_Witness ==
    /\ ~docker /\ marker
    /\ StartupDone
    /\ trace = LocalStartup

\* C17: after a Local startup that reached the sleep loop, Run() has started
\* one child and stopped none, that child is r.cmd and, its spawn having
\* succeeded, it is the one process alive; it was given exactly the entries
\* name=value of r.run.Env as overlay, and no overlay when r.run is nil.
C17_LocalStartupOneChildWithRunEnv ==
    (Local /\ StartupDone) =>
        /\ flows[1].nstart = 1 /\ flows[1].nstop = 0
        /\ flows[1].exec = 1 /\ cmd = 1
        /\ alive = IF flows[1].up THEN {1} ELSE {}
        /\ flows[1].env.added = ~run.nil
        /\ flows[1].env.entries =
             IF run.nil THEN {}
             ELSE {<<k, "=", run.Env[k]>> : k \in DOMAIN run.Env}

C17_Witness ==
    /\ Local /\ StartupDone
    /\ ~run.nil /\ DOMAIN run.Env = EnvNames
    /\ alive = {1} /\ cmd = 1
    /\ Cardinality(flows[1].env.entries) = 2

----------------------------------------------------------------------------
\* The step in which a Reload() or a Close() on the host calls readPID.
C18_ReadsPid(f) ==
    /\ HostDelegating
    /\ flows[f].kind \in {"Reload", "Close"}
    /\ flows[f].pc = "readPID"
    /\ flows'[f].pc # "readPID"

C18_NotAnInteger(data) ==
    data = <<>> \/ \E i \in 1..Len(data) : data[i] \notin {Digits[d] : d \in 1..10}

\* C18: in HostDelegating topology a Reload() that has built, and a Close(),
\* fail when the pid file is absent and when it holds no integer, with the
\* error "read" in the first case and the error "parse" in the second, and a
\* flow that failed so has sent no remote command.
C18_BadPidFileFails ==
    /\ [][\A f \in FlowId : C18_ReadsPid(f) =>
            /\ ~pidFile.exists =>
                (flows'[f].pc = "err" /\ flows'[f].errk = "read")
            /\ (pidFile.exists /\ C18_NotAnInteger(pidFile.data)) =>
                (flows'[f].pc = "err" /\ flows'[f].errk = "parse")
            /\ flows'[f].nsent = 0]_vars
    /\ [](HostDelegating => \A f \in Flows("Reload") \cup Flows("Close") :
            flows[f].errk # "" =>
                /\ flows[f].errk \in {"read", "parse"}
                /\ flows[f].pc = "err"
                /\ flows[f].nsent = 0 /\ flows[f].sig = "")

C18_Witness ==
    /\ HostDelegating
    /\ \E f \in Flows("Reload") :
        flows[f].bok /\ flows[f].errk = "read" /\ flows[f].nsent = 0
    /\ \E f \in Flows("Close") : flows[f].errk = "read" /\ flows[f].nsent = 0

----------------------------------------------------------------------------
----------------------------------------------------------------------------
C20_HostStartup ==
    <<"xbuildRebirth", "init", "before", "compile", "after", "launch", "watch">>

\* C20: in HostDelegating topology the command that starts the peer is issued
\* only after xbuildRebirth and xbuild have both succeeded, and a startup that
\* reached the sleep loop has issued it; Run() goes on to install the listener
\* whether that command is still running or has failed, and its failure
\* changes nothing in any flow of the supervisor.
C20_LaunchAfterBuildsUnawaited ==
    /\ [](/\ launched = (peer # "none")
          /\ launched =>
                /\ HostDelegating
                /\ flows[1].bok
                /\ SubSeq(trace, 1, 6) = SubSeq(C20_HostStartup, 1, 6)
                /\ flows[1].pc \in {"watch", "loop"}
          /\ (HostDelegating /\ StartupDone) =>
                (launched /\ installed /\ trace = C20_HostStartup)
          /\ (launched /\ flows[1].pc = "watch" /\ ~crashed) => ENABLED RunWatch)
    /\ [][(peer = "running" /\ peer' = "failed") =>
            (flows' = flows /\ installed' = installed /\ crashed' = crashed
                /\ trace' = trace)]_vars

C20_Witness ==
    /\ HostDelegating /\ StartupDone /\ installed
    /\ peer = "failed"
    /\ pidFile # writePID(PeerPid)

====
